---- MODULE Spec2Model ----
(***************************************************************************)
(* A model of minimio's two selector backends:                             *)
(*   - src/src/macos.rs   : the readiness backend (kqueue / kevent)        *)
(*   - src/src/windows.rs : the completion backend (I/O completion port)   *)
(* The kernel is the environment of both: its calls are modelled by what   *)
(* their manual pages say, and every result the code branches on (the      *)
(* return value, the last error, the number of entries removed) is an      *)
(* input of the action that makes the call.                                *)
(***************************************************************************)
EXTENDS Integers, Sequences, FiniteSets, TLC

\* ------------------------------------------------------------------ bounds
MaxFd == 2        \* file descriptors (sockets) 1..MaxFd
MaxCap == 2       \* largest event buffer the caller hands to select

MaxSock == 1      \* sockets of the completion backend, 1..MaxSock
MaxPort == 2      \* completion packets queued on the port at one time

MaxThreads == 2   \* threads that create Selectors and call the allocator
MaxSel == 2       \* Selectors created in one run
MaxIds == 3       \* identifiers the allocator issues in one run

Fds == 1..MaxFd
Socks == 1..MaxSock

\* Tokens are opaque to the code, which never branches on one: two distinct
\* values stand for all of them (the tokens of Scenario A and of the test
\* select_kevent_works).
Tokens == {42, 99}

\* ------------------------------------------------------- ffi constants (kq)
EVFILT_READ == -1
EV_ADD == 1
EV_ENABLE == 4
EV_ONESHOT == 16

RECURSIVE BitOr(_, _)
BitOr(a, b) ==
    IF a = 0 THEN b
    ELSE IF b = 0 THEN a
    ELSE (IF a % 2 = 1 \/ b % 2 = 1 THEN 1 ELSE 0) + 2 * BitOr(a \div 2, b \div 2)

RECURSIVE BitAnd(_, _)
BitAnd(a, b) ==
    IF a = 0 \/ b = 0 THEN 0
    ELSE (IF a % 2 = 1 /\ b % 2 = 1 THEN 1 ELSE 0) + 2 * BitAnd(a \div 2, b \div 2)

Min(a, b) == IF a <= b THEN a ELSE b

Range(s) == {s[i] : i \in 1..Len(s)}

\* ------------------------------------------------------------- Interests
\* crate::interests::Interests is not part of the two source files; it is the
\* flag set {Readable, Writable} of the specification.
InterestSets == SUBSET {"Readable", "Writable"}
is_readable(interests) == "Readable" \in interests
is_writable(interests) == "Writable" \in interests

\* ----------------------------------------------------------------- Kevent
\* ffi::Kevent. fflags and data are written as 0 by the program and are never
\* read by it; they are left out of the record.
ZeroEvent == [ident |-> 0, filter |-> 0, flags |-> 0, udata |-> 0]

\* A slot of the buffer's storage that neither the caller nor the kernel has
\* written since the buffer was cleared.
Uninit == [ident |-> -1, filter |-> 0, flags |-> 0, udata |-> -1]

new_read_event_no_oneshot(fd, id) ==
    [ident |-> fd, filter |-> EVFILT_READ,
     flags |-> BitOr(EV_ADD, EV_ENABLE), udata |-> id]

new_read_event_udata_ident(fd, id) ==
    [ident |-> fd, filter |-> EVFILT_READ,
     flags |-> BitOr(BitOr(EV_ADD, EV_ENABLE), EV_ONESHOT), udata |-> fd]

\* ffi::Event::new_read_event. `fd as u64` and the caller's `id as u64` keep
\* the value of every non-negative descriptor and token.
new_read_event(fd, id) ==
    [ident |-> fd, filter |-> EVFILT_READ,
     flags |-> BitOr(BitOr(EV_ADD, EV_ENABLE), EV_ONESHOT), udata |-> id]

\* ------------------------------------------------------- the kernel queue
\* The kqueue holds at most one knote per (ident, filter); the program only
\* uses EVFILT_READ, so a knote is keyed by its ident. flags = 0: no knote.
NoKnote == [filter |-> 0, flags |-> 0, udata |-> 0]

IsArmed(kn, fd) == kn[fd].flags # 0

ApplyChange_keeps_existing(kn, ev) ==
    IF BitAnd(ev.flags, EV_ADD) # 0 /\ kn[ev.ident].flags = 0
    THEN [kn EXCEPT ![ev.ident] =
              [filter |-> ev.filter, flags |-> ev.flags, udata |-> ev.udata]]
    ELSE kn

\* One changelist entry: EV_ADD adds the knote or, when (ident, filter) is
\* already there, modifies it in place (udata and flags are replaced).
ApplyChange(kn, ev) ==
    IF BitAnd(ev.flags, EV_ADD) # 0
    THEN [kn EXCEPT ![ev.ident] =
              [filter |-> ev.filter, flags |-> ev.flags, udata |-> ev.udata]]
    ELSE kn

RECURSIVE ApplyChanges(_, _)
ApplyChanges(kn, cl) ==
    IF cl = <<>> THEN kn ELSE ApplyChanges(ApplyChange(kn, Head(cl)), Tail(cl))

\* The knotes that are enabled and whose descriptor has bytes to read.
Active(kn, rd) ==
    {fd \in DOMAIN kn :
        /\ IsArmed(kn, fd)
        /\ BitAnd(kn[fd].flags, EV_ENABLE) # 0
        /\ kn[fd].filter = EVFILT_READ
        /\ fd \in rd}

\* Sequences of pairwise distinct elements of S, of length 1..n.
Batches(S, n) ==
    {b \in UNION {[1..k -> S] : k \in 1..Min(n, Cardinality(S))} :
        \A i, j \in 1..Len(b) : i # j => b[i] # b[j]}

\* Delivering a knote registered EV_ONESHOT deletes it.
Deliver(kn, batch) ==
    [fd \in DOMAIN kn |->
        IF fd \in Range(batch) /\ BitAnd(kn[fd].flags, EV_ONESHOT) # 0
        THEN NoKnote ELSE kn[fd]]

EventOf(kn, fd) ==
    [ident |-> fd, filter |-> kn[fd].filter, flags |-> kn[fd].flags,
     udata |-> kn[fd].udata]

\* kevent(2) with a null timeout: the outcomes of one call, each
\* [res, eventlist, knotes]. The changelist is applied first. With
\* nevents = 0 the call returns at once; otherwise it blocks until a knote
\* is active (no outcome while none is) and returns up to nevents of them in
\* the kernel's order. res = -1 is a failed call (EBADF, EINTR, ENOMEM...),
\* which leaves the queue as it was.
kevent(kn, rd, cl, nevents) ==
    LET kn1 == ApplyChanges(kn, cl) IN
    {[res |-> -1, eventlist |-> <<>>, knotes |-> kn]}
    \cup
    (IF nevents <= 0
     THEN {[res |-> 0, eventlist |-> <<>>, knotes |-> kn1]}
     ELSE {[res |-> Len(b),
            eventlist |-> [i \in 1..Len(b) |-> EventOf(kn1, b[i])],
            knotes |-> Deliver(kn1, b)] : b \in Batches(Active(kn1, rd), nevents)})

\* Option<usize>.
None == [some |-> FALSE, v |-> 0]
Some(v) == [some |-> TRUE, v |-> v]
unwrap_or(opt, default) == IF opt.some THEN opt.v ELSE default

\* kevent as the program declares it (macos.rs 202-209): the last parameter,
\* `const struct timespec *timeout`, is declared `timeout: usize`, so the
\* kernel takes the number it is passed for the address of a timespec. The
\* outcomes of one call, each [res, errno, eventlist, knotes]. 0 is the null
\* pointer: no timeout, and a failed call is an interrupted one (EINTR). At
\* any other number the kernel either cannot read a timespec (EFAULT, before
\* it waits) or waits for the time it reads there, and when that has elapsed
\* with no knote active it returns 0.
kevent_timeout(kn, rd, cl, nevents, timeout) ==
    IF timeout = 0
    THEN {[res |-> o.res, errno |-> IF o.res < 0 THEN "EINTR" ELSE "",
           eventlist |-> o.eventlist, knotes |-> o.knotes] :
             o \in kevent(kn, rd, cl, nevents)}
    ELSE {[res |-> -1, errno |-> "EFAULT", eventlist |-> <<>>, knotes |-> kn]}
         \cup
         {[res |-> o.res, errno |-> "", eventlist |-> o.eventlist, knotes |-> o.knotes] :
             o \in {k \in kevent(kn, rd, cl, nevents) : k.res >= 0}}
         \cup
         (IF nevents > 0 /\ Active(ApplyChanges(kn, cl), rd) = {}
          THEN {[res |-> 0, errno |-> "", eventlist |-> <<>>,
                 knotes |-> ApplyChanges(kn, cl)]}
          ELSE {})

syscall_kevent_result_nonzero_is_error(res) ==
    IF res # 0 THEN "os_error" ELSE "ok"

syscall_kevent_result_zero_is_error(res) ==
    IF res <= 0 THEN "os_error" ELSE "ok"

\* ffi::syscall_kevent, macos.rs 177-181: what the wrapper returns for the
\* kernel's return value.
syscall_kevent_result(res) == IF res < 0 THEN "os_error" ELSE "ok"

\* ffi::syscall_kevent, macos.rs 162-182: the outcomes of one call, each
\* [kind, res, errno, eventlist, knotes]. The kernel is called once.
syscall_kevent(kn, rd, cl, n_events, timeout) ==
    {[kind |-> syscall_kevent_result(o.res), res |-> o.res, errno |-> o.errno,
      eventlist |-> o.eventlist, knotes |-> o.knotes] :
        o \in kevent_timeout(kn, rd, cl, n_events, unwrap_or(timeout, 0))}

\* -------------------------------------------------------------- variables
\* The readiness backend (macos.rs).
VARIABLES
    knotes,      \* kqueue of the Selector: fd -> knote
    readable,    \* descriptors whose peer has sent bytes not yet read
    nonblocking, \* fd -> whether the socket is in non-blocking mode
    arms,        \* history: fd -> [tok, fires] since the latest register of fd
    last,        \* the latest call on the Selector: its arguments, what it
                 \* returned and, for select, the caller's buffer as it left it
    inflight     \* the select a second thread has entered and not left

kqvars == <<knotes, readable, nonblocking, arms, last, inflight>>

\* The completion backend (windows.rs).
VARIABLES
    socks,       \* kernel state of each socket: [avail, pending, done]
    port,        \* the completion port's queue of packets, oldest first
    wlast        \* the latest call on the completion backend: what it
                 \* returned and, for select, the caller's vector as it left it

wvars == <<socks, port, wlast>>

\* Selector creation and destruction (both files) and the Allocator.
VARIABLES
    next_id,     \* the Allocator's counter
    issued,      \* history: the identifiers next() has returned, in order
    threads,     \* thread -> [pc, id, port, opened]: where it is in Selector::new
    selectors,   \* the Selectors created, in order of creation
    open         \* the kernel's open queue handles (kqueues, completion ports)

selvars == <<next_id, issued, threads, selectors, open>>

vars == <<kqvars, wvars, selvars>>

\* tok: the token of the register call whose watch has not fired yet (0: none);
\* fires: the events select has reported for fd since its latest register.
NeverArmed == [tok |-> 0, fires |-> 0]

NoSole == [fd |-> 0, tok |-> 0]

\* len_in: the length on entry of the buffer select was called on. eventlist:
\* the records the kernel wrote, in the kernel's order. events: that buffer
\* (Vec<Event>) as it is on return: [items, cap]. toks: for each record of the
\* batch, the token of the register call that armed its descriptor. sole: the
\* descriptor and token, when on entry exactly one descriptor had ever been
\* registered and it was readable. For a call of ffi::syscall_kevent: timeout
\* is its timeout argument, errno the error of a failed kernel call, ready
\* whether a watched descriptor was readable when it was called. late: for a
\* select that had to wait, the descriptors it returned whose watch was
\* registered after it had entered the kernel. replaced: for a register whose
\* kernel call succeeded, the token of the watch the descriptor had when it
\* was called (0: it had none).
NoCall == [op |-> "none", kind |-> "none", interests |-> {}, kcalls |-> 0,
           armed |-> FALSE, len_in |-> 0, n_events |-> 0, res |-> 0,
           timeout |-> None, errno |-> "", ready |-> FALSE,
           eventlist |-> <<>>, late |-> {}, replaced |-> 0,
           events |-> [items |-> <<>>, cap |-> 0], toks |-> <<>>, sole |-> NoSole]

\* TcpStream::connect, macos.rs 74-75: the mode the stream is left in
\* (set_nonblocking(true)).
connect_nonblocking == TRUE

\* pc: "idle", or "kevent" while the thread is inside select's kernel call.
\* ev: the buffer that select was called on. armed: the descriptors that had
\* a watch when the call was entered. blocked: whether no watch was active
\* then, so that the call had to wait.
NoSelect == [pc |-> "idle", ev |-> [items |-> <<>>, cap |-> 0], armed |-> {},
             blocked |-> FALSE]

InitKq ==
    /\ inflight = NoSelect
    /\ knotes = [fd \in Fds |-> NoKnote]
    /\ readable = {}
    /\ nonblocking = [fd \in Fds |-> connect_nonblocking]
    /\ arms = [fd \in Fds |-> NeverArmed]
    /\ last = NoCall

\* ------------------------------------------------------ Selector::register
\* macos.rs 44-60: the outcomes of one call, each [kcall, kind, kres, knotes].
\* The kevent call is made for Readable only; its `?` returns the OS error
\* before the Writable test is reached; unimplemented!() panics. kind is what
\* the call returned to the caller, kcall whether the kernel was called, kres
\* what the kernel returned, knotes the queue afterwards.
register(kn, rd, fd, id, interests) ==
    IF is_readable(interests)
    THEN {[kcall |-> TRUE,
           kind |-> IF o.kind = "os_error" THEN "os_error"
                    ELSE IF is_writable(interests) THEN "panic" ELSE "ok",
           kres |-> o.res,
           knotes |-> o.knotes] :
             o \in syscall_kevent(kn, rd, <<new_read_event(fd, id)>>, 0, None)}
    ELSE {[kcall |-> FALSE,
           kind |-> IF is_writable(interests) THEN "panic" ELSE "ok",
           kres |-> 0,
           knotes |-> kn]}

Register_sets_blocking(fd, id, interests) ==
    \E r \in register(knotes, readable, fd, id, interests) :
        /\ knotes' = r.knotes
        /\ arms' = IF r.kcall /\ r.kres >= 0
                   THEN [arms EXCEPT ![fd] = [tok |-> id, fires |-> 0]]
                   ELSE arms
        /\ last' = [NoCall EXCEPT
                       !.op = "register", !.kind = r.kind, !.interests = interests,
                       !.kcalls = IF r.kcall THEN 1 ELSE 0,
                       !.armed = (r.knotes # knotes \/ (r.kcall /\ r.kres >= 0)),
                       !.replaced = IF r.kcall /\ r.kres >= 0
                                    THEN knotes[fd].udata ELSE 0,
                       !.res = r.kres]
        /\ nonblocking' = [nonblocking EXCEPT ![fd] = FALSE]
        /\ UNCHANGED readable
        /\ UNCHANGED <<inflight, wvars, selvars>>

Register(fd, id, interests) ==
    \E r \in register(knotes, readable, fd, id, interests) :
        /\ knotes' = r.knotes
        /\ arms' = IF r.kcall /\ r.kres >= 0
                   THEN [arms EXCEPT ![fd] = [tok |-> id, fires |-> 0]]
                   ELSE arms
        /\ last' = [NoCall EXCEPT
                       !.op = "register", !.kind = r.kind, !.interests = interests,
                       !.kcalls = IF r.kcall THEN 1 ELSE 0,
                       !.armed = (r.knotes # knotes \/ (r.kcall /\ r.kres >= 0)),
                       !.replaced = IF r.kcall /\ r.kres >= 0
                                    THEN knotes[fd].udata ELSE 0,
                       !.res = r.kres]
        /\ UNCHANGED <<readable, nonblocking>>
        /\ UNCHANGED <<inflight, wvars, selvars>>

\* -------------------------------------------------------- Selector::select
select_n_events_zero(ev) == 0

\* macos.rs 33: the count asked of the kernel is the buffer's length on entry.
select_n_events(ev) == Len(ev.items)

select_set_len_requested(res, n_events) == n_events

select_set_len_drops_last(res, n_events) == IF res > 0 THEN res - 1 ELSE res

\* macos.rs 36-41: the length the buffer is set to after a successful call.
select_set_len(res, n_events) == res

\* Vec::set_len over storage whose first Len(written) slots were written.
SetLen(written, n) ==
    [i \in 1..n |-> IF i <= Len(written) THEN written[i] ELSE Uninit]

\* The buffers a caller passes to select: n entries in storage made for them
\* (as the tests' vec![Event::zero()]), and the empty buffer with storage set
\* aside (Vec::with_capacity).
EventsInputs ==
    {[items |-> [i \in 1..n |-> ZeroEvent], cap |-> n] : n \in 0..MaxCap}
    \cup {[items |-> <<>>, cap |-> MaxCap]}

\* macos.rs 31-42 with syscall_kevent 162-182 (res < 0 is the OS error): the
\* outcomes of select on buffer ev, each
\* [kind, n_events, res, eventlist, events, knotes].
select(kn, rd, ev) ==
    LET n_events == select_n_events(ev)
        cleared == [ev EXCEPT !.items = <<>>]
    IN
    {[kind |-> o.kind,
      n_events |-> n_events,
      res |-> o.res,
      eventlist |-> o.eventlist,
      events |-> IF o.kind = "os_error" THEN cleared
                 ELSE [cleared EXCEPT
                          !.items = SetLen(o.eventlist, select_set_len(o.res, n_events))],
      knotes |-> o.knotes] :
        o \in syscall_kevent(kn, rd, <<>>, n_events, None)}

Reported(eventlist, fd) == \E i \in 1..Len(eventlist) : eventlist[i].ident = fd

\* Exactly one descriptor, fd, has ever been registered; its watch is armed
\* under token t.
OnlyRegistration(fd, t) ==
    /\ arms[fd] = [tok |-> t, fires |-> 0]
    /\ IsArmed(knotes, fd)
    /\ \A g \in Fds \ {fd} : arms[g] = NeverArmed /\ ~IsArmed(knotes, g)

Sole ==
    IF \E fd \in Fds, t \in Tokens : OnlyRegistration(fd, t) /\ fd \in readable
    THEN LET fd == CHOOSE f \in Fds : \E t \in Tokens : OnlyRegistration(f, t)
         IN [fd |-> fd, tok |-> arms[fd].tok]
    ELSE NoSole

Select(ev) ==
    \E r \in select(knotes, readable, ev) :
        /\ knotes' = r.knotes
        /\ arms' = [fd \in Fds |->
                      IF Reported(r.eventlist, fd)
                      THEN [tok |-> 0, fires |-> Min(arms[fd].fires + 1, 2)]
                      ELSE arms[fd]]
        /\ last' = [NoCall EXCEPT
                       !.op = "select", !.kind = r.kind, !.kcalls = 1,
                       !.len_in = Len(ev.items),
                       !.n_events = r.n_events, !.res = r.res,
                       !.eventlist = r.eventlist,
                       !.events = r.events,
                       !.toks = [i \in 1..Len(r.eventlist) |->
                                    arms[r.eventlist[i].ident].tok],
                       !.sole = Sole]
        /\ UNCHANGED <<readable, nonblocking>>
        /\ UNCHANGED <<inflight, wvars, selvars>>

\* ------------------------------------------------------------ environment
\* The peer sends bytes: the descriptor becomes readable.
PeerSend(fd) ==
    /\ fd \notin readable
    /\ readable' = readable \cup {fd}
    /\ UNCHANGED <<knotes, nonblocking, arms, last>>
    /\ UNCHANGED <<inflight, wvars, selvars>>

\* The caller reads what has arrived (impl Read for &TcpStream, macos.rs
\* 83-92): the socket is made blocking, then read.
SocketRead(fd) ==
    /\ fd \in readable
    /\ nonblocking' = [nonblocking EXCEPT ![fd] = FALSE]
    /\ readable' = readable \ {fd}
    /\ UNCHANGED <<knotes, arms, last>>
    /\ UNCHANGED <<inflight, wvars, selvars>>

NextKq ==
    \/ \E fd \in Fds, id \in Tokens, interests \in InterestSets :
          Register(fd, id, interests)
    \/ \E ev \in EventsInputs : Select(ev)
    \/ \E fd \in Fds : PeerSend(fd)
    \/ \E fd \in Fds : SocketRead(fd)

\* ======================================================================
\* The completion backend: src/src/windows.rs
\* ======================================================================
WSA_IO_PENDING == 997

\* ffi::INFINITE, 0xFFFFFFFF: written here as the i32 of the same bits
\* (windows.rs 216-218), the checker's integers being 32 bits wide.
INFINITE == -1

\* The last errors a failed WSARecv leaves besides WSA_IO_PENDING
\* (WSAECONNRESET, WSAENOTCONN).
WsaFailures == {10054, 10057}

\* Bytes a peer sends at once (Scenario E sends 100).
ByteCounts == {1, 100}

\* avail: bytes received and not yet read; pending: an overlapped read is
\* outstanding; done: bytes the completed read has put into its buffer (0: no
\* completed read waits to be retrieved).
IdleSock == [avail |-> 0, pending |-> FALSE, done |-> 0]

\* WSARecv with an OVERLAPPED and no completion routine: the outcomes of one
\* call on a socket in state sk, each [res, err, sock]. With bytes waiting the
\* read completes at once (0); with none it is left outstanding (SOCKET_ERROR,
\* WSA_IO_PENDING); or it fails.
WSARecv(sk) ==
    {[res |-> -1, err |-> e, sock |-> sk] : e \in WsaFailures}
    \cup
    (IF sk.pending \/ sk.done # 0 THEN {}
     ELSE IF sk.avail # 0
     THEN {[res |-> 0, err |-> 0,
            sock |-> [sk EXCEPT !.avail = 0, !.done = sk.avail]]}
     ELSE {[res |-> -1, err |-> WSA_IO_PENDING,
            sock |-> [sk EXCEPT !.pending = TRUE]]})

create_soc_read_event_pending_fails(res, err) ==
    IF res # 0 THEN "os_error" ELSE "ok"

\* ffi::create_soc_read_event, windows.rs 276-297: what it returns for the
\* WSARecv result res and the WSAGetLastError value err.
create_soc_read_event(res, err) ==
    IF res # 0
    THEN IF err = WSA_IO_PENDING THEN "ok" ELSE "os_error"
    ELSE "ok"

\* events: the vector select was called on, as it is on return; slice: the
\* slice select returned; waiting: the completed reads at the time of the
\* call; ms: the dwMilliseconds the kernel wait was given. For a call of
\* ffi::get_queued_completion_status: timeout is its timeout argument and
\* werr the kernel's last error. For a call of TcpStream::read_to_end: status
\* is the stream's status and inner what the inner socket's read_to_end
\* returned ("none": it was not called).
NoWCall == [op |-> "none", kind |-> "none", kres |-> 0, kerr |-> 0,
            timeout |-> None, werr |-> "", status |-> "", inner |-> "none",
            ul_count |-> 0, ms |-> 0, removed |-> 0, slice |-> <<>>,
            events |-> [items |-> <<>>, cap |-> 0], waiting |-> {}]

\* The reads that have completed and whose result no select has returned.
Completed == {[soc |-> s, bytes |-> socks[s].done] : s \in {t \in Socks : socks[t].done # 0}}

InitIocp ==
    /\ socks = [s \in Socks |-> IdleSock]
    /\ port = <<>>
    /\ wlast = NoWCall

\* ----------------------------------------------------------- the Allocator
\* crate::ID is not part of the two source files: the specification's atomic,
\* monotonically increasing counter. next() is one atomic fetch-and-add.
Allocator_next(counter) == [id |-> counter, counter |-> counter + 1]

Threads == 1..MaxThreads

IdleThread == [pc |-> "idle", id |-> 0, port |-> 0, opened |-> 0]

InitSel ==
    /\ next_id = 0
    /\ issued = <<>>
    /\ threads = [t \in Threads |-> IdleThread]
    /\ selectors = <<>>
    /\ open = {}

Init == InitKq /\ InitIocp /\ InitSel

\* A read is issued on socket s.
CreateSocReadEvent(s) ==
    \E o \in WSARecv(socks[s]) :
        /\ socks' = [socks EXCEPT ![s] = o.sock]
        /\ wlast' = [NoWCall EXCEPT !.op = "create_soc_read_event",
                                    !.kind = create_soc_read_event(o.res, o.err),
                                    !.kres = o.res, !.kerr = o.err]
        /\ UNCHANGED port
        /\ UNCHANGED <<kqvars, selvars>>

\* Selector::register_soc_read_event, windows.rs 85: the body is empty.
RegisterSocReadEvent(s) ==
    /\ wlast' = [NoWCall EXCEPT !.op = "register_soc_read_event", !.kind = "ok"]
    /\ UNCHANGED <<socks, port>>
    /\ UNCHANGED <<kqvars, selvars>>

\* The peer sends n bytes. An outstanding read completes with them. No call
\* of the program associates a socket with the completion port
\* (CreateIoCompletionPort is only called to create the port, windows.rs 268),
\* so the completion queues no packet on it.
PeerSendBytes(s, n) ==
    /\ socks[s].avail = 0
    /\ socks[s].done = 0
    /\ socks' = [socks EXCEPT ![s] =
                    IF socks[s].pending
                    THEN [avail |-> 0, pending |-> FALSE, done |-> n]
                    ELSE [socks[s] EXCEPT !.avail = n]]
    /\ UNCHANGED <<port, wlast>>
    /\ UNCHANGED <<kqvars, selvars>>

\* The key is passed as `&mut usize` where the kernel takes the key by value:
\* the packet carries the address of the caller's variable.
KeyPtr(completion_key) == [addr_of |-> completion_key]

\* ffi::register_event, windows.rs 299-306. kres is what
\* PostQueuedCompletionStatus returned: nonzero when the packet was queued.
register_event(kres) == IF kres # 0 THEN "os_error" ELSE "ok"

RegisterEvent(bytes, key, kres) ==
    /\ kres # 0 => Len(port) < MaxPort
    /\ port' = IF kres # 0
               THEN Append(port, [lp_completion_key |-> KeyPtr(key),
                                  bytes_transferred |-> bytes])
               ELSE port
    /\ wlast' = [NoWCall EXCEPT !.op = "register_event", !.kind = register_event(kres),
                                !.kres = kres]
    /\ UNCHANGED socks
    /\ UNCHANGED <<kqvars, selvars>>

\* An entry of the caller's vector before the kernel has written it.
ZeroEntry == [lp_completion_key |-> KeyPtr(0), bytes_transferred |-> 0]

\* GetQueuedCompletionStatusEx with dwMilliseconds = INFINITE: the outcomes
\* of one call, each [res, removed, entries, port]. It blocks until a packet
\* is queued (no successful outcome while none is), removes up to ulCount of
\* them, oldest first, stores how many in *ulNumEntriesRemoved and returns
\* nonzero; a failed call returns zero and stores nothing. Selector::new keeps
\* `*(res as *const i32)`, the i32 read through the handle taken as an
\* address, not the handle (windows.rs 272), so a failed call is an outcome
\* of every call. With ulCount = 0 there is no room for an entry: the call
\* that returns because a packet is queued stores none and leaves the queue,
\* and the count it reports for the wake-up is 0 or 1.
GetQueuedCompletionStatusEx(q, ulCount) ==
    {[res |-> 0, removed |-> 0, entries |-> <<>>, port |-> q]}
    \cup
    (IF ulCount >= 1
     THEN {[res |-> 1, removed |-> k, entries |-> SubSeq(q, 1, k),
            port |-> SubSeq(q, k + 1, Len(q))] : k \in 1..Min(ulCount, Len(q))}
     ELSE IF q = <<>> THEN {}
     ELSE {[res |-> 1, removed |-> k, entries |-> <<>>, port |-> q] : k \in 0..1})

\* ffi::get_queued_completion_status, windows.rs 322-336: what it returns for
\* the kernel's return value res and the count the kernel stored.
get_queued_completion_status(res, ul_num_entries_removed) ==
    IF res # 0
    THEN [kind |-> "os_error", removed |-> 0]
    ELSE [kind |-> "ok", removed |-> ul_num_entries_removed]

\* ffi::get_queued_completion_status, windows.rs 328: the dwMilliseconds
\* passed to the kernel for the wrapper's timeout argument.
get_queued_completion_status_timeout(timeout) == unwrap_or(timeout, INFINITE)

\* windows.rs 94-97: the vector is cleared, and then its length is taken as
\* the maximum number of entries to remove.
select_ul_count(ev) == Len([ev EXCEPT !.items = <<>>].items)

\* Selector::select, windows.rs 89-108, on the vector ev: the outcomes, each
\* [kind, kres, ul_count, ms, removed, slice, events, port]. `&mut events[..removed]`
\* panics when removed exceeds the vector's length.
wselect(q, ev) ==
    LET cleared == [ev EXCEPT !.items = <<>>]
        ul_count == select_ul_count(ev)
    IN
    {LET r == get_queued_completion_status(o.res, o.removed)
         written == [i \in 1..Len(cleared.items) |->
                        IF i <= Len(o.entries) THEN o.entries[i] ELSE cleared.items[i]]
     IN
     [kind |-> IF r.kind = "os_error" THEN "os_error"
               ELSE IF r.removed > Len(cleared.items) THEN "panic"
               ELSE "ok",
      kres |-> o.res,
      ul_count |-> ul_count,
      ms |-> get_queued_completion_status_timeout(None),
      removed |-> o.removed,
      slice |-> IF r.kind = "ok" /\ r.removed <= Len(cleared.items)
                THEN SubSeq(written, 1, r.removed) ELSE <<>>,
      events |-> [cleared EXCEPT !.items = written],
      port |-> o.port] :
        o \in GetQueuedCompletionStatusEx(q, ul_count)}

\* select is called with a vector of n entries.
WSelect(n) ==
    \E r \in wselect(port, [items |-> [i \in 1..n |-> ZeroEntry], cap |-> n]) :
        /\ port' = r.port
        /\ wlast' = [NoWCall EXCEPT
                        !.op = "select", !.kind = r.kind, !.kres = r.kres,
                        !.ul_count = r.ul_count, !.ms = r.ms, !.removed = r.removed,
                        !.slice = r.slice, !.events = r.events, !.waiting = Completed]
        /\ UNCHANGED socks
        /\ UNCHANGED <<kqvars, selvars>>

\* ------------------------------------------------- TcpStream (windows.rs)
\* enum TcpReadiness, windows.rs 20-23.
TcpReadiness == {"Ready", "NotReady"}

\* TcpStream::connect, windows.rs 38-41: the status of a new stream. No other
\* line of the file assigns the field.
connect_status == "NotReady"

\* The variants of TcpReadiness that a bare name refers to inside impl Read:
\* the file has no `use TcpReadiness::*` (windows.rs 1-10) and the arms of
\* read_to_end are not written TcpReadiness::Ready.
VariantsInScope == {}

\* A match arm whose pattern is the bare identifier name: the variant when
\* one of that name is in scope, otherwise a new binding, which matches
\* every value.
pattern_matches(name, value) ==
    IF name \in VariantsInScope THEN value = name ELSE TRUE

\* windows.rs 51-58: the arm of `match &self.status` that is taken; arms are
\* tried in order.
read_to_end_arm(status) ==
    IF pattern_matches("Ready", status) THEN "Ready"
    ELSE IF pattern_matches("NotReady", status) THEN "NotReady"
    ELSE "none"

\* net::TcpStream::read_to_end on the non-blocking inner socket in state sk:
\* the outcomes, each [kind, sock]. It takes the bytes that have arrived and
\* goes on reading: the peer has closed (Ok), nothing more has arrived
\* (WouldBlock), or the connection fails.
inner_read_to_end(sk) ==
    {[kind |-> k, sock |-> [sk EXCEPT !.avail = 0]] : k \in {"ok", "would_block"}}
    \cup {[kind |-> "os_error", sock |-> sk]}

\* TcpStream::read_to_end, windows.rs 50-61: the outcomes, each
\* [kind, inner, sock]. The value of the first arm is the value of the match
\* statement, which ends in `;`: it is dropped and Ok(buff.len()) returned.
read_to_end(status, sk) ==
    IF read_to_end_arm(status) = "Ready"
    THEN {[kind |-> "ok", inner |-> o.kind, sock |-> o.sock] :
             o \in inner_read_to_end(sk)}
    ELSE {[kind |-> "would_block", inner |-> "none", sock |-> sk]}

ReadToEnd(s) ==
    \E r \in read_to_end(connect_status, socks[s]) :
        /\ socks' = [socks EXCEPT ![s] = r.sock]
        /\ wlast' = [NoWCall EXCEPT !.op = "read_to_end", !.kind = r.kind,
                                    !.status = connect_status, !.inner = r.inner]
        /\ UNCHANGED port
        /\ UNCHANGED <<kqvars, selvars>>

NextIocp ==
    \/ \E s \in Socks : ReadToEnd(s)
    \/ \E s \in Socks : CreateSocReadEvent(s)
    \/ \E s \in Socks : RegisterSocReadEvent(s)
    \/ \E s \in Socks, n \in ByteCounts : PeerSendBytes(s, n)
    \/ \E bytes \in ByteCounts, key \in Tokens, kres \in {0, 1} :
          RegisterEvent(bytes, key, kres)
    \/ \E n \in 0..MaxCap : WSelect(n)

\* ======================================================================
\* Selector::new and the end of a Selector's life (both files)
\* ======================================================================
\* A fault in one thread ends the process: no thread takes a step after it.
Running == \A t \in Threads : threads[t].pc # "fault"

\* The kernel gives a new queue the lowest handle that is not open.
LowestFree(handles) ==
    CHOOSE h \in 1..(Cardinality(handles) + 1) :
        h \notin handles /\ \A g \in 1..(h - 1) : g \in handles

\* kqueue(2): a new descriptor, or -1.
kqueue(handles) == {-1, LowestFree(handles)}

\* ffi::queue, macos.rs 154-160.
queue(fd) == IF fd < 0 THEN "os_error" ELSE "ok"

new_with_id_zero(id, kq) ==
    [backend |-> "kqueue", id |-> 0, handle |-> kq, opened |-> kq, live |-> TRUE]

\* Selector::new_with_id, macos.rs 15-20: the Selector for identifier id and
\* queue descriptor kq. opened is the kernel handle made for the Selector.
new_with_id(id, kq) ==
    [backend |-> "kqueue", id |-> id, handle |-> kq, opened |-> kq, live |-> TRUE]

\* Selector::new, macos.rs 22-24, first step: the argument ID.next() is
\* evaluated before new_with_id is entered.
KqNewNextId(t) ==
    /\ Running
    /\ threads[t].pc = "idle"
    /\ next_id < MaxIds
    /\ LET a == Allocator_next(next_id) IN
          /\ next_id' = a.counter
          /\ issued' = Append(issued, a.id)
          /\ threads' = [threads EXCEPT ![t] = [IdleThread EXCEPT !.pc = "have_id", !.id = a.id]]
    /\ UNCHANGED <<selectors, open>>
    /\ UNCHANGED <<kqvars, wvars>>

\* Selector::new, macos.rs 15-20, second step: ffi::queue()? and the Selector.
KqNewQueue(t) ==
    /\ Running
    /\ threads[t].pc = "have_id"
    /\ \E fd \in kqueue(open) :
          IF queue(fd) = "ok"
          THEN /\ Len(selectors) < MaxSel
               /\ open' = open \cup {fd}
               /\ selectors' = Append(selectors, new_with_id(threads[t].id, fd))
          ELSE UNCHANGED <<selectors, open>>
    /\ threads' = [threads EXCEPT ![t] = IdleThread]
    /\ UNCHANGED <<next_id, issued>>
    /\ UNCHANGED <<kqvars, wvars>>

\* CreateIoCompletionPort(INVALID_HANDLE_VALUE, 0, null, 0): a new port's
\* handle, or null (0).
CreateIoCompletionPort(handles) == {0, LowestFree(handles)}

\* ffi::create_completion_port, windows.rs 264-274: the outcomes for the
\* kernel's result res. A non-null handle is cast to `*const i32` and read
\* through: the read faults, or yields the i32 that lies at the address the
\* handle's value names, which is any number (0 and the value of the handle
\* stand for them).
create_completion_port(res) ==
    IF res = 0
    THEN {[kind |-> "os_error", port |-> 0]}
    ELSE {[kind |-> "fault", port |-> 0]}
         \cup {[kind |-> "ok", port |-> v] : v \in {0, res}}

\* Selector::new, windows.rs 73-83, first step: the completion port.
IocpNewPort(t) ==
    /\ Running
    /\ threads[t].pc = "idle"
    /\ Len(selectors) + Cardinality({u \in Threads : threads[u].pc = "have_port"}) < MaxSel
    /\ \E res \in CreateIoCompletionPort(open) :
          /\ open' = IF res = 0 THEN open ELSE open \cup {res}
          /\ \E o \in create_completion_port(res) :
                threads' = [threads EXCEPT ![t] =
                    IF o.kind = "ok"
                    THEN [pc |-> "have_port", id |-> 0, port |-> o.port, opened |-> res]
                    ELSE [IdleThread EXCEPT !.pc = o.kind]]
    /\ UNCHANGED <<next_id, issued, selectors>>
    /\ UNCHANGED <<kqvars, wvars>>

\* Selector::new, windows.rs 76-82, second step: ID.next() and the Selector.
IocpNewNextId(t) ==
    /\ Running
    /\ threads[t].pc = "have_port"
    /\ next_id < MaxIds
    /\ LET a == Allocator_next(next_id) IN
          /\ next_id' = a.counter
          /\ issued' = Append(issued, a.id)
          /\ selectors' = Append(selectors,
                 [backend |-> "iocp", id |-> a.id, handle |-> threads[t].port,
                  opened |-> threads[t].opened, live |-> TRUE])
    /\ threads' = [threads EXCEPT ![t] = IdleThread]
    /\ UNCHANGED open
    /\ UNCHANGED <<kqvars, wvars>>

\* A thread whose call of Selector::new returned an error takes up again.
Resume(t) ==
    /\ Running
    /\ threads[t].pc = "os_error"
    /\ threads' = [threads EXCEPT ![t] = IdleThread]
    /\ UNCHANGED <<next_id, issued, selectors, open>>
    /\ UNCHANGED <<kqvars, wvars>>

\* A thread calls the allocator for an identifier of its own (a watch token,
\* Scenario D).
IdNext(t) ==
    /\ Running
    /\ threads[t].pc = "idle"
    /\ next_id < MaxIds
    /\ LET a == Allocator_next(next_id) IN
          /\ next_id' = a.counter
          /\ issued' = Append(issued, a.id)
    /\ UNCHANGED <<threads, selectors, open>>
    /\ UNCHANGED <<kqvars, wvars>>

\* The owner drops Selector i. Neither file has an `impl Drop for Selector`
\* and the fields are integers (macos.rs 9-12, windows.rs 66-70): dropping
\* the value runs no code, and no call closes the handle.
Drop(i) ==
    /\ Running
    /\ i \in DOMAIN selectors
    /\ selectors[i].live
    /\ selectors' = [selectors EXCEPT ![i].live = FALSE]
    /\ UNCHANGED <<next_id, issued, threads, open>>
    /\ UNCHANGED <<kqvars, wvars>>

NextSel ==
    \/ \E t \in Threads : KqNewNextId(t)
    \/ \E t \in Threads : KqNewQueue(t)
    \/ \E t \in Threads : IocpNewPort(t)
    \/ \E t \in Threads : IocpNewNextId(t)
    \/ \E t \in Threads : Resume(t)
    \/ \E t \in Threads : IdNext(t)
    \/ \E i \in 1..MaxSel : Drop(i)

\* ======================================================================
\* The two wait wrappers called with a timeout
\* ======================================================================
\* The timeouts a caller passes (Scenario A waits 5 seconds).
TimeoutInputs == {None, Some(0), Some(5)}

\* ffi::syscall_kevent(kq, &[], el, n_events, timeout), macos.rs 162-182.
SyscallKevent(n_events, timeout) ==
    \E o \in syscall_kevent(knotes, readable, <<>>, n_events, timeout) :
        /\ knotes' = o.knotes
        /\ arms' = [fd \in Fds |->
                      IF Reported(o.eventlist, fd)
                      THEN [tok |-> 0, fires |-> Min(arms[fd].fires + 1, 2)]
                      ELSE arms[fd]]
        /\ last' = [NoCall EXCEPT
                       !.op = "syscall_kevent", !.kind = o.kind, !.kcalls = 1,
                       !.n_events = n_events, !.res = o.res,
                       !.timeout = timeout, !.errno = o.errno,
                       !.ready = (Active(knotes, readable) # {}),
                       !.eventlist = o.eventlist]
        /\ UNCHANGED <<readable, nonblocking>>
        /\ UNCHANGED <<inflight, wvars, selvars>>

\* GetQueuedCompletionStatusEx given dwMilliseconds: the outcomes of one
\* call, each [res, removed, entries, port, err]. With a finite time and no
\* packet queued the call returns zero when the time has elapsed, with last
\* error WAIT_TIMEOUT, and stores nothing.
GetQueuedCompletionStatusExFor(q, ulCount, dwMilliseconds) ==
    {[res |-> o.res, removed |-> o.removed, entries |-> o.entries, port |-> o.port,
      err |-> IF o.res = 0 THEN "ERROR_INVALID_HANDLE" ELSE ""] :
        o \in GetQueuedCompletionStatusEx(q, ulCount)}
    \cup
    (IF dwMilliseconds # INFINITE /\ q = <<>>
     THEN {[res |-> 0, removed |-> 0, entries |-> <<>>, port |-> q,
            err |-> "WAIT_TIMEOUT"]}
     ELSE {})

\* ffi::get_queued_completion_status(port, entries, ul_count, timeout, false),
\* windows.rs 322-336.
GetQueuedCompletionStatus(ul_count, timeout) ==
    LET ms == get_queued_completion_status_timeout(timeout) IN
    \E o \in GetQueuedCompletionStatusExFor(port, ul_count, ms) :
        LET r == get_queued_completion_status(o.res, o.removed) IN
        /\ port' = o.port
        /\ wlast' = [NoWCall EXCEPT
                        !.op = "get_queued_completion_status", !.kind = r.kind,
                        !.kres = o.res, !.werr = o.err, !.timeout = timeout,
                        !.ul_count = ul_count, !.ms = ms, !.removed = r.removed]
        /\ UNCHANGED socks
        /\ UNCHANGED <<kqvars, selvars>>

\* A build has one backend (macos.rs and windows.rs are compiled for their
\* own targets): a process that has used one does not use the other.
OnKqueue == wlast = NoWCall /\ port = <<>>
OnIocp == last = NoCall /\ readable = {} /\ knotes = [fd \in Fds |-> NoKnote]

NextWait ==
    \/ \E fd \in Fds, id \in Tokens, interests \in InterestSets :
          OnKqueue /\ Register(fd, id, interests)
    \/ \E fd \in Fds : OnKqueue /\ PeerSend(fd)
    \/ \E n \in 0..MaxCap, timeout \in TimeoutInputs :
          OnKqueue /\ SyscallKevent(n, timeout)
    \/ \E bytes \in ByteCounts, key \in Tokens, kres \in {0, 1} :
          OnIocp /\ RegisterEvent(bytes, key, kres)
    \/ \E n \in 0..MaxCap, timeout \in TimeoutInputs :
          OnIocp /\ GetQueuedCompletionStatus(n, timeout)

\* ======================================================================
\* register from one thread while another thread is inside select
\* ======================================================================
\* Selector::select, macos.rs 32-35, up to the kernel call: the thread is now
\* inside kevent. One select is outstanding on a Selector at a time.
SelectEnter(ev) ==
    /\ inflight.pc = "idle"
    /\ inflight' = [pc |-> "kevent", ev |-> ev,
                    armed |-> {fd \in Fds : IsArmed(knotes, fd)},
                    blocked |-> (Active(knotes, readable) = {})]
    /\ UNCHANGED <<knotes, readable, nonblocking, arms, last>>
    /\ UNCHANGED <<wvars, selvars>>

SelectReturn_on_entry_queue ==
    LET kn == [fd \in Fds |-> IF fd \in inflight.armed THEN knotes[fd] ELSE NoKnote] IN
    /\ inflight.pc = "kevent"
    /\ \E r \in select(kn, readable, inflight.ev) :
        /\ knotes' = r.knotes
        /\ arms' = [fd \in Fds |->
                      IF Reported(r.eventlist, fd)
                      THEN [tok |-> 0, fires |-> Min(arms[fd].fires + 1, 2)]
                      ELSE arms[fd]]
        /\ last' = [NoCall EXCEPT
                       !.op = "select", !.kind = r.kind, !.kcalls = 1,
                       !.len_in = Len(inflight.ev.items),
                       !.n_events = r.n_events, !.res = r.res,
                       !.eventlist = r.eventlist,
                       !.events = r.events]
    /\ inflight' = NoSelect
    /\ UNCHANGED <<readable, nonblocking>>
    /\ UNCHANGED <<wvars, selvars>>

\* Selector::select, macos.rs 35-41, from the kernel call's return: kevent
\* returns on the queue as it is now, with the watches registered since the
\* call was entered.
SelectReturn ==
    /\ inflight.pc = "kevent"
    /\ \E r \in select(knotes, readable, inflight.ev) :
        /\ knotes' = r.knotes
        /\ arms' = [fd \in Fds |->
                      IF Reported(r.eventlist, fd)
                      THEN [tok |-> 0, fires |-> Min(arms[fd].fires + 1, 2)]
                      ELSE arms[fd]]
        /\ last' = [NoCall EXCEPT
                       !.op = "select", !.kind = r.kind, !.kcalls = 1,
                       !.len_in = Len(inflight.ev.items),
                       !.n_events = r.n_events, !.res = r.res,
                       !.eventlist = r.eventlist,
                       !.events = r.events,
                       !.toks = [i \in 1..Len(r.eventlist) |->
                                    arms[r.eventlist[i].ident].tok],
                       !.late = IF inflight.blocked
                                THEN {fd \in Fds : Reported(r.eventlist, fd)}
                                        \ inflight.armed
                                ELSE {}]
    /\ inflight' = NoSelect
    /\ UNCHANGED <<readable, nonblocking>>
    /\ UNCHANGED <<wvars, selvars>>

\* The callers of this section. One thread calls select in a loop on a
\* buffer that has entries, so that the call waits when no watch is active.
\* The other registers a descriptor for Readable when it has no watch waiting
\* (at first, and again after its event was reported), under the token of
\* tests::select_kevent_works.
Unwatched(fd) == arms[fd].tok = 0
ConcTokens == {99}
ConcEventsInputs == {ev \in EventsInputs : Len(ev.items) >= 1}

NextConc ==
    \/ \E fd \in Fds, id \in ConcTokens :
          Unwatched(fd) /\ Register(fd, id, {"Readable"})
    \/ \E ev \in ConcEventsInputs : SelectEnter(ev)
    \/ SelectReturn
    \/ \E fd \in Fds : PeerSend(fd)

\* The select thread keeps calling select; a kevent call that can return
\* events returns; and the kernel leaves no active watch behind for ever: a
\* call that is inside kevent again and again while the watch of fd is active
\* returns it.
FairConc ==
    /\ SF_vars(\E ev \in ConcEventsInputs : SelectEnter(ev))
    /\ WF_vars(SelectReturn /\ last'.kind = "ok")
    /\ \A fd \in Fds : SF_vars(SelectReturn /\ Reported(last'.eventlist, fd))

\* ----------------------------------------------------------- specifications
SpecKq == Init /\ [][NextKq]_vars

SpecIocp == Init /\ [][NextIocp]_vars

SpecSel == Init /\ [][NextSel]_vars

SpecWait == Init /\ [][NextWait]_vars

SpecConc == Init /\ [][NextConc]_vars /\ FairConc

\* ======================================================================
\* Properties of the readiness backend (checked under SpecKq)
\* ======================================================================

\* C1: a registration fires at most once per arm. Since the latest register
\* of a descriptor, select has reported at most one event for it, and once it
\* has reported one the watch is gone from the kernel queue until the next
\* register, however long the descriptor stays readable.
C1_FiresAtMostOncePerArm ==
    \A fd \in Fds :
        /\ arms[fd].fires <= 1
        /\ arms[fd].fires = 1 => ~IsArmed(knotes, fd)

\* A descriptor has fired once and is readable, and the latest select
\* succeeded and reported another descriptor only.
C1_Witness ==
    \E fd, g \in Fds :
        /\ fd # g
        /\ arms[fd].fires = 1
        /\ fd \in readable
        /\ last.op = "select" /\ last.kind = "ok" /\ last.res = 1
        /\ Len(last.events.items) = 1 /\ last.events.items[1].ident = g

\* C2: after a successful select the buffer's length is the count the kernel
\* reported, it is at most the buffer's capacity, every entry it exposes was
\* written by the kernel, and the count asked of the kernel was at most the
\* capacity.
C2_LengthIsKernelCount ==
    (last.op = "select" /\ last.kind = "ok") =>
        /\ Len(last.events.items) = last.res
        /\ Len(last.events.items) <= last.events.cap
        /\ last.n_events <= last.events.cap
        /\ \A i \in 1..Len(last.events.items) : last.events.items[i] # Uninit

\* A select on a buffer of two entries that the kernel gave one event.
C2_Witness ==
    /\ last.op = "select" /\ last.kind = "ok"
    /\ last.len_in = 2 /\ last.n_events = 2 /\ last.res = 1
    /\ Len(last.events.items) = 1 /\ last.events.cap = 2

\* C3 (as claimed): when the kernel call does not fail, register returns
\* success if and only if the interest set is non-empty and does not contain
\* Writable.
C3_SucceedsIffNonEmptyAndNotWritable ==
    (last.op = "register" /\ last.res >= 0) =>
        (last.kind = "ok" <=> (last.interests # {} /\ ~is_writable(last.interests)))

\* C4 (as claimed): a register call whose interest set contains Writable
\* returns an unsupported-operation error and arms no watch.
C4_WritableIsUnsupportedAndArmsNothing ==
    (last.op = "register" /\ is_writable(last.interests)) =>
        (last.kind = "unsupported" /\ ~last.armed)

\* C5 (as claimed): a register call with an empty interest set fails with an
\* invalid-argument error, issues no kernel call and arms no watch.
C5_EmptyIsInvalidArgument ==
    (last.op = "register" /\ last.interests = {}) =>
        (last.kind = "invalid_argument" /\ last.kcalls = 0 /\ ~last.armed)

\* C6: every record a successful select returns carries in udata the token
\* passed to the register call that armed the descriptor that fired, so select
\* reports no token that was not given to register.
C6_TokenRoundTrip ==
    (last.op = "select" /\ last.kind = "ok") =>
        /\ Len(last.events.items) = Len(last.toks)
        /\ \A i \in 1..Len(last.events.items) :
              /\ last.toks[i] \in Tokens
              /\ last.events.items[i].udata = last.toks[i]

\* One select has returned two records with different tokens, for two
\* descriptors.
C6_Witness ==
    /\ last.op = "select" /\ last.kind = "ok"
    /\ Len(last.events.items) = 2
    /\ last.events.items[1].udata = 42 /\ last.events.items[2].udata = 99
    /\ last.events.items[1].ident # last.events.items[2].ident

\* C7 (Scenario A): with exactly one descriptor registered for Readable under
\* token t and bytes sent by the peer, a select on a buffer of at least one
\* entry whose kernel call does not fail returns exactly one record, for that
\* descriptor, and its token is t.
C7_ScenarioA ==
    (/\ last.op = "select" /\ last.kind = "ok"
     /\ last.sole # NoSole
     /\ last.len_in >= 1) =>
        /\ Len(last.events.items) = 1
        /\ last.events.items[1].ident = last.sole.fd
        /\ last.events.items[1].udata = last.sole.tok

\* Scenario A has run: the only descriptor ever registered, under token 42,
\* was readable when select was called on a buffer of one entry, and select
\* succeeded.
C7_Witness ==
    /\ last.op = "select" /\ last.kind = "ok"
    /\ last.len_in = 1
    /\ last.sole # NoSole /\ last.sole.tok = 42
    /\ arms[last.sole.fd].fires = 1

C20_OnlyReadChangesBlockingMode ==
    [][\A fd \in Fds : nonblocking'[fd] # nonblocking[fd] => SocketRead(fd)]_vars

\* A descriptor was registered and select has reported it, and it is still
\* non-blocking, while another descriptor has been read and is blocking.
C20_Witness ==
    \E fd, g \in Fds :
        /\ arms[fd].fires = 1 /\ nonblocking[fd]
        /\ last.op = "select" /\ last.kind = "ok"
        /\ ~nonblocking[g]

\* C16 (as claimed): for any buffer passed in, an empty one included, a
\* successful select carries at least one event.
C16_SuccessCarriesAnEvent ==
    (last.op = "select" /\ last.kind = "ok") =>
        /\ last.res >= 1
        /\ Len(last.events.items) >= 1

\* ======================================================================
\* Properties of the completion backend (checked under SpecIocp)
\* ======================================================================

\* C8 (as claimed): a successful select returns exactly the entries the
\* kernel removed from the port in that call (as many as the kernel reported,
\* at most the count requested), and select neither fails nor panics when the
\* kernel reports one or more completions.
C8_SelectReturnsRemovedEntries ==
    (wlast.op = "select") =>
        /\ wlast.kind = "ok" =>
              /\ Len(wlast.slice) = wlast.removed
              /\ Len(wlast.slice) <= wlast.ul_count
        /\ wlast.removed >= 1 => wlast.kind = "ok"

\* C9 (as claimed, Scenario E): when a read has been issued on a socket with
\* no data and the peer has then sent bytes, a subsequent select returns one
\* record, whose bytes-transferred is the number of bytes sent.
C9_ScenarioE ==
    (wlast.op = "select" /\ Cardinality(wlast.waiting) = 1) =>
        /\ wlast.kind = "ok"
        /\ Len(wlast.slice) = 1
        /\ \E c \in wlast.waiting : wlast.slice[1].bytes_transferred = c.bytes

\* C10: issuing a read succeeds exactly when the kernel reports it complete
\* (WSARecv returns 0) or reports failure with last error WSA_IO_PENDING;
\* every other kernel failure is returned as an OS error.
C10_ReadSucceedsIffCompleteOrPending ==
    (wlast.op = "create_soc_read_event") =>
        /\ wlast.kind = "ok" <=> (wlast.kres = 0 \/ wlast.kerr = WSA_IO_PENDING)
        /\ wlast.kind # "ok" => wlast.kind = "os_error"

\* A read was issued on a socket with no data: the kernel reported failure
\* with WSA_IO_PENDING, the read is outstanding and the call returned success.
C10_Witness ==
    /\ wlast.op = "create_soc_read_event"
    /\ wlast.kres # 0 /\ wlast.kerr = WSA_IO_PENDING
    /\ wlast.kind = "ok"
    /\ \E s \in Socks : socks[s].pending

\* C11 (as claimed): select returns Ok exactly when GetQueuedCompletionStatusEx
\* reported success (a nonzero return) and an OS error exactly when it reported
\* failure (zero).
C11_OkIffKernelSuccess ==
    (wlast.op = "select") =>
        /\ wlast.kres # 0 => wlast.kind = "ok"
        /\ wlast.kres = 0 => wlast.kind = "os_error"

\* C17 (as claimed): select waits with the INFINITE timeout and asks the
\* kernel for at least one entry, and a successful select returns at least one
\* completed operation.
C17_AsksForAtLeastOneEntry ==
    (wlast.op = "select") =>
        /\ wlast.ms = INFINITE
        /\ wlast.ul_count >= 1
        /\ wlast.kind = "ok" => Len(wlast.slice) >= 1

\* ======================================================================
\* Properties of Selector creation and destruction (checked under SpecSel)
\* ======================================================================

\* C13 (as claimed): the kernel handles of two Selectors differ, and no kernel
\* handle of a dropped Selector is open.
C13_DroppedHandleIsClosed ==
    /\ \A i, j \in DOMAIN selectors :
          (i # j /\ selectors[i].live /\ selectors[j].live) =>
              selectors[i].opened # selectors[j].opened
    /\ \A i \in DOMAIN selectors :
          ~selectors[i].live => selectors[i].opened \notin open

\* C14: the identifiers next() has returned are pairwise distinct, and any
\* two Selectors created by Selector::new, on either backend and by any
\* threads, have different ids.
C14_IdsPairwiseDistinct ==
    /\ \A i, j \in DOMAIN issued : i # j => issued[i] # issued[j]
    /\ \A i, j \in DOMAIN selectors : i # j => selectors[i].id # selectors[j].id

\* Two threads were inside Selector::new at the same time, one on each
\* backend, and both Selectors exist; the kqueue thread took its identifier
\* first and finished last.
C14_Witness ==
    /\ Len(selectors) = 2
    /\ selectors[1].backend = "iocp" /\ selectors[2].backend = "kqueue"
    /\ selectors[2].id < selectors[1].id
    /\ Len(issued) = 3

\* ======================================================================
\* Properties of the wait wrappers (checked under SpecWait)
\* ======================================================================

Pending(fd, t) == arms[fd] = [tok |-> t, fires |-> 0] /\ fd \in readable

\* The call is a successful select whose batch holds a record of fd with
\* token t.
ReportedBy(call, fd, t) ==
    /\ call.op = "select" /\ call.kind = "ok"
    /\ \E i \in 1..Len(call.events.items) :
          /\ call.events.items[i].ident = fd
          /\ call.events.items[i].udata = t

\* C18: on the readiness backend a register that runs while another thread is
\* inside select is not lost. Under every interleaving of the two threads,
\* once register(fd, t, Readable) has armed the watch and fd is readable, the
\* registration does not stay unreported for ever; it stops being unreported
\* only by a select (the one in flight or a later one) returning a record of
\* fd with token t; and no registration is reported more than once.
C18_ConcurrentRegisterIsReported ==
    /\ \A fd \in Fds, t \in Tokens : []<>(~Pending(fd, t))
    /\ [][\A fd \in Fds, t \in Tokens :
            (Pending(fd, t) /\ ~Pending(fd, t)') =>
                (ReportedBy(last', fd, t) /\ arms'[fd].fires = 1)]_vars
    /\ [](\A fd \in Fds : arms[fd].fires <= 1)

\* A select that found no watch active when it entered the kernel has
\* returned a descriptor that was registered while it was waiting.
C18_Witness ==
    /\ last.op = "select" /\ last.kind = "ok"
    /\ \E i \in 1..Len(last.events.items) :
          last.events.items[i].ident \in last.late

\* C22: a descriptor has at most one armed read watch, and it is the watch of
\* the most recent register call: a descriptor is armed exactly while its
\* latest registration has not been reported, the armed watch carries that
\* registration's token and is one-shot, so a register on an armed
\* descriptor, with the same or another token, has replaced the watch; a
\* descriptor that select reports has fired once and has no watch left.
C22_OneWatchWithLatestToken ==
    /\ \A fd \in Fds :
          /\ IsArmed(knotes, fd) <=> arms[fd].tok # 0
          /\ IsArmed(knotes, fd) =>
                /\ knotes[fd].udata = arms[fd].tok
                /\ knotes[fd].filter = EVFILT_READ
                /\ BitAnd(knotes[fd].flags, EV_ONESHOT) # 0
                /\ arms[fd].fires = 0
    /\ (last.op = "select" /\ last.kind = "ok") =>
          \A i \in 1..Len(last.events.items) :
              /\ arms[last.events.items[i].ident].fires = 1
              /\ ~IsArmed(knotes, last.events.items[i].ident)

\* register has just succeeded on the only descriptor that was ever
\* registered, which was armed under another token: its one watch now
\* carries the new token.
C22_Witness ==
    /\ last.op = "register" /\ last.kind = "ok"
    /\ last.replaced # 0
    /\ \E fd \in Fds :
          /\ IsArmed(knotes, fd)
          /\ knotes[fd].udata # last.replaced
          /\ \A g \in Fds \ {fd} : arms[g] = NeverArmed

\* ======================================================================
\* The completion backend's socket wrapper (checked under SpecIocp)
\* ======================================================================

\* C21: read_to_end on a stream whose status is NotReady returns WouldBlock
\* without reading from the inner socket; the inner socket is read only when
\* the status is Ready, and then an error of the inner read is the error
\* read_to_end returns.
C21_NotReadyIsWouldBlock ==
    wlast.op = "read_to_end" =>
        /\ wlast.status = "NotReady" =>
               (wlast.kind = "would_block" /\ wlast.inner = "none")
        /\ wlast.inner # "none" => wlast.status = "Ready"
        /\ wlast.inner \in {"would_block", "os_error"} => wlast.kind = wlast.inner

====
